---------------------------- MODULE Spec2Model ----------------------------
(***************************************************************************)
(* Model of verify/verify_orbits.py: a constant table of the eight         *)
(* planets, two closed-form formulas (Kepler's third law, circular orbital *)
(* velocity), four report routines and the driver main().                  *)
(*                                                                         *)
(* Python floats are IEEE-754 binary64 numbers.  They are modelled here    *)
(* bit for bit: a float is a sign, a 53-bit mantissa and a binary exponent,*)
(* and every float operation of the source (product, quotient, difference, *)
(* sqrt, power, literal parsing) is the exact result rounded to nearest,   *)
(* ties to even.  TLC's integers are 32 bits wide, so mantissas and the    *)
(* intermediate exact results are natural numbers held as sequences of     *)
(* limbs (little-endian, base 2^15).                                       *)
(***************************************************************************)
EXTENDS Integers, Sequences, FiniteSets, TLC

-----------------------------------------------------------------------------
(* Natural numbers of arbitrary size: <<l1, ..., ln>> stands for           *)
(* l1 + l2*Base + ... + ln*Base^(n-1), with ln # 0; zero is << >>.         *)

Base == 32768
LimbBits == 15

RECURSIVE BNorm(_)
BNorm(a) ==
    IF a = << >> THEN << >>
    ELSE IF a[Len(a)] = 0 THEN BNorm(SubSeq(a, 1, Len(a) - 1))
    ELSE a

RECURSIVE BFromInt(_)
BFromInt(n) ==
    IF n = 0 THEN << >> ELSE <<n % Base>> \o BFromInt(n \div Base)

RECURSIVE BToInt(_)
BToInt(a) ==
    IF a = << >> THEN 0 ELSE a[1] + Base * BToInt(Tail(a))

Limb(a, i) == IF i <= Len(a) THEN a[i] ELSE 0

Max(x, y) == IF x >= y THEN x ELSE y

Min(x, y) == IF x <= y THEN x ELSE y

RECURSIVE BCmpFrom(_, _, _)
BCmpFrom(a, b, i) ==
    IF i = 0 THEN 0
    ELSE IF Limb(a, i) < Limb(b, i) THEN -1
    ELSE IF Limb(a, i) > Limb(b, i) THEN 1
    ELSE BCmpFrom(a, b, i - 1)

\* -1, 0 or 1 as a < b, a = b, a > b
BCmp(a, b) == BCmpFrom(a, b, Max(Len(a), Len(b)))

BLeq(a, b) == BCmp(a, b) <= 0

RECURSIVE BAddFrom(_, _, _, _)
BAddFrom(a, b, i, carry) ==
    IF i > Max(Len(a), Len(b))
    THEN (IF carry = 0 THEN << >> ELSE <<carry>>)
    ELSE LET s == Limb(a, i) + Limb(b, i) + carry
         IN  <<s % Base>> \o BAddFrom(a, b, i + 1, s \div Base)

BAdd(a, b) == BAddFrom(a, b, 1, 0)

RECURSIVE BSubFrom(_, _, _, _)
BSubFrom(a, b, i, borrow) ==
    IF i > Len(a) THEN << >>
    ELSE LET d == Limb(a, i) - Limb(b, i) - borrow
         IN  IF d < 0 THEN <<d + Base>> \o BSubFrom(a, b, i + 1, 1)
             ELSE <<d>> \o BSubFrom(a, b, i + 1, 0)

\* a - b, for a >= b
BSub(a, b) == BNorm(BSubFrom(a, b, 1, 0))

RECURSIVE BMulSmallFrom(_, _, _, _)
BMulSmallFrom(a, k, i, carry) ==
    IF i > Len(a)
    THEN (IF carry = 0 THEN << >> ELSE <<carry>>)
    ELSE LET p == a[i] * k + carry
         IN  <<p % Base>> \o BMulSmallFrom(a, k, i + 1, p \div Base)

\* a * k, for 0 <= k < Base
BMulSmall(a, k) == IF k = 0 THEN << >> ELSE BMulSmallFrom(a, k, 1, 0)

RECURSIVE BMul(_, _)
BMul(a, b) ==
    IF b = << >> \/ a = << >> THEN << >>
    ELSE LET rest == BMul(a, Tail(b))
         IN  BAdd(BMulSmall(a, b[1]),
                  IF rest = << >> THEN << >> ELSE <<0>> \o rest)

RECURSIVE Pow2(_)
Pow2(k) == IF k = 0 THEN 1 ELSE 2 * Pow2(k - 1)

Zeros(n) == [i \in 1..n |-> 0]

\* a * 2^k
BShl(a, k) ==
    IF a = << >> THEN << >>
    ELSE Zeros(k \div LimbBits) \o BMulSmall(a, Pow2(k % LimbBits))

RECURSIVE BDivSmallFrom(_, _, _, _)
BDivSmallFrom(a, d, i, rem) ==
    IF i = 0 THEN << >>
    ELSE LET cur == rem * Base + a[i]
         IN  BDivSmallFrom(a, d, i - 1, cur % d) \o <<cur \div d>>

\* floor(a / d), for 0 < d < Base
BDivSmall(a, d) == BNorm(BDivSmallFrom(a, d, Len(a), 0))

\* floor(a / 2^k)
BShr(a, k) ==
    LET drop == k \div LimbBits
    IN  IF drop >= Len(a) THEN << >>
        ELSE BDivSmall(SubSeq(a, drop + 1, Len(a)), Pow2(k % LimbBits))

RECURSIVE IntBitLen(_)
IntBitLen(n) == IF n = 0 THEN 0 ELSE 1 + IntBitLen(n \div 2)

\* number of binary digits of a (0 for zero)
BBitLen(a) ==
    IF a = << >> THEN 0
    ELSE LimbBits * (Len(a) - 1) + IntBitLen(a[Len(a)])

BIsOdd(a) == a # << >> /\ a[1] % 2 = 1

BOne == <<1>>

\* One digit of a long division: the largest q < Base with q*d <= r, for a
\* divisor d of two limbs or more whose top limb is at least Base/2, and
\* r < d*Base.  The quotient of the top limbs is at most 2 too large
\* (Knuth, TAOCP 4.3.1, Theorem B); it is lowered until it fits.
RECURSIVE BDigitFit(_, _, _)
BDigitFit(r, d, q) ==
    IF BLeq(BMulSmall(d, q), r) THEN q ELSE BDigitFit(r, d, q - 1)

BDigit(r, d) ==
    IF Len(r) < Len(d) THEN 0
    ELSE BDigitFit(r, d,
            Min(Base - 1,
                (Limb(r, Len(d) + 1) * Base + r[Len(d)]) \div d[Len(d)]))

\* Long division of n's limbs j, j-1, ..., 1 into the remainder r: the
\* quotient's limbs, lowest first.  (The test on q, always true, makes TLC compute
\* this step's digit before it goes on to the next limb.)
RECURSIVE BLongDiv(_, _, _, _)
BLongDiv(n, d, j, r) ==
    IF j = 0 THEN << >>
    ELSE LET cur == BNorm(<<n[j]>> \o r)
             q   == BDigit(cur, d)
         IN  IF q >= 0
             THEN BLongDiv(n, d, j - 1, BSub(cur, BMulSmall(d, q))) \o <<q>>
             ELSE << >>

\* floor(n / d), for d # 0
BDiv(n, d) ==
    IF BCmp(n, d) < 0 THEN << >>
    ELSE IF Len(d) = 1 THEN BDivSmall(n, d[1])
    ELSE LET s  == LimbBits - IntBitLen(d[Len(d)])
             nn == BShl(n, s)
         IN  BNorm(BLongDiv(nn, BShl(d, s), Len(nn), << >>))

\* Newton's iteration from above: x >= floor(sqrt(n)) at every step
RECURSIVE BSqrtFrom(_, _)
BSqrtFrom(n, x) ==
    LET y == BDivSmall(BAdd(x, BDiv(n, x)), 2)
    IN  IF BCmp(y, x) >= 0 THEN x ELSE BSqrtFrom(n, y)

\* floor(sqrt(n))
BSqrt(n) ==
    IF n = << >> THEN << >>
    ELSE BSqrtFrom(n, BShl(BOne, (BBitLen(n) + 1) \div 2))

RECURSIVE BPow10(_)
BPow10(k) == IF k = 0 THEN BOne ELSE BMulSmall(BPow10(k - 1), 10)

-----------------------------------------------------------------------------
(* Python floats (IEEE-754 binary64).  A float is                          *)
(*   [neg |-> sign, m |-> mantissa, e |-> exponent], value (-1)^neg*m*2^e, *)
(* with 2^52 <= m < 2^53, or m = 0 (and e = 0) for zero.  The tables of    *)
(* the program stay far from the subnormal and overflow ranges, which are  *)
(* not modelled.                                                           *)

MantBits == 53

FZero == [neg |-> FALSE, m |-> << >>, e |-> 0]

\* The float nearest to n*2^e (ties to even) for a natural n # 0; `sticky'
\* says that the exact value is a little above n*2^e (a remainder was cut
\* off below n's last bit), and is only passed with BBitLen(n) > MantBits.
FRound(neg, n, sticky, e) ==
    LET len == BBitLen(n)
    IN  IF len <= MantBits
        THEN [neg |-> neg, m |-> BShl(n, MantBits - len), e |-> e - (MantBits - len)]
        ELSE LET drop == len - MantBits
                 q    == BShr(n, drop)
                 rem  == BSub(n, BShl(q, drop))
                 half == BShl(BOne, drop - 1)
                 c    == BCmp(rem, half)
                 up   == c > 0 \/ (c = 0 /\ (sticky \/ BIsOdd(q)))
                 r    == IF up THEN BAdd(q, BOne) ELSE q
             IN  IF BBitLen(r) > MantBits
                 THEN [neg |-> neg, m |-> BShr(r, 1), e |-> e + drop + 1]
                 ELSE [neg |-> neg, m |-> r, e |-> e + drop]

\* The float nearest to (n/d)*2^e, for naturals n # 0 and d # 0
FRat(neg, n, d, e) ==
    LET s   == Max(0, MantBits + 2 + BBitLen(d) - BBitLen(n))
        num == BShl(n, s)
        q   == BDiv(num, d)
    IN  FRound(neg, q, BMul(q, d) # num, e - s)

\* int -> float conversion
FromInt(n) ==
    IF n = 0 THEN FZero
    ELSE IF n < 0 THEN FRound(TRUE, BFromInt(-n), FALSE, 0)
    ELSE FRound(FALSE, BFromInt(n), FALSE, 0)

\* The natural number hi*10^9 + lo: a decimal digit string too long for one
\* 32-bit integer
Dec(hi, lo) == BAdd(BMul(BFromInt(hi), BPow10(9)), BFromInt(lo))

\* A float literal of the source text: the digits `digits' (a natural
\* number) times 10^exp10, rounded correctly as Python's parser does
LitB(digits, exp10) ==
    IF digits = << >> THEN FZero
    ELSE IF exp10 >= 0
    THEN FRound(FALSE, BMul(digits, BPow10(exp10)), FALSE, 0)
    ELSE FRat(FALSE, digits, BPow10(-exp10), 0)

Lit(digits, exp10) == LitB(BFromInt(digits), exp10)

\* x * y
FMul(x, y) ==
    IF x.m = << >> \/ y.m = << >> THEN FZero
    ELSE FRound(x.neg # y.neg, BMul(x.m, y.m), FALSE, x.e + y.e)

\* x / y, for y # 0 (Python raises ZeroDivisionError otherwise)
FDiv(x, y) ==
    IF x.m = << >> THEN FZero
    ELSE FRat(x.neg # y.neg, x.m, y.m, x.e - y.e)

\* -1, 0 or 1 as |x| < |y|, |x| = |y|, |x| > |y|
FCmpMag(x, y) ==
    IF x.m = << >> THEN (IF y.m = << >> THEN 0 ELSE -1)
    ELSE IF y.m = << >> THEN 1
    ELSE IF x.e > y.e THEN 1
    ELSE IF x.e < y.e THEN -1
    ELSE BCmp(x.m, y.m)

\* -1, 0 or 1 as x < y, x = y, x > y
FCmp(x, y) ==
    IF x.neg /\ ~y.neg THEN -1
    ELSE IF ~x.neg /\ y.neg THEN 1
    ELSE IF x.neg THEN -FCmpMag(x, y)
    ELSE FCmpMag(x, y)

\* x < y
FLt(x, y) == FCmp(x, y) < 0

\* x >= y
FGe(x, y) == FCmp(x, y) >= 0

\* x - y for x >= 0 and y >= 0 (the only subtractions of the source)
FSub(x, y) ==
    IF y.m = << >> THEN x
    ELSE IF x.m = << >> THEN [y EXCEPT !.neg = TRUE]
    ELSE LET emin == Min(x.e, y.e)
             xm   == BShl(x.m, x.e - emin)
             ym   == BShl(y.m, y.e - emin)
             c    == BCmp(xm, ym)
         IN  IF c = 0 THEN FZero
             ELSE IF c > 0 THEN FRound(FALSE, BSub(xm, ym), FALSE, emin)
             ELSE FRound(TRUE, BSub(ym, xm), FALSE, emin)

\* abs(x)
FAbs(x) == [x EXCEPT !.neg = FALSE]

\* math.sqrt(x), for x >= 0 (Python raises ValueError otherwise)
FSqrt(x) ==
    IF x.m = << >> THEN FZero
    ELSE LET t == IF (x.e - (MantBits + 1)) % 2 = 0
                  THEN MantBits + 1 ELSE MantBits + 2
             n == BShl(x.m, t)
             r == BSqrt(n)
         IN  FRound(FALSE, r, BMul(r, r) # n, (x.e - t) \div 2)

\* x ** 3
FCube(x) ==
    IF x.m = << >> THEN FZero
    ELSE FRound(x.neg, BMul(x.m, BMul(x.m, x.m)), FALSE, 3 * x.e)

\* round(n / d) for naturals n, d # 0: ties to even
BRoundDiv(n, d) ==
    LET q == BDiv(n, d)
        c == BCmp(BMulSmall(BSub(n, BMul(q, d)), 2), d)
    IN  IF c > 0 \/ (c = 0 /\ BIsOdd(q)) THEN BAdd(q, BOne) ELSE q

\* |x| as the exact fraction FNum(x) / FDen(x)
FNum(x) == IF x.e >= 0 THEN BShl(x.m, x.e) ELSE x.m

FDen(x) == IF x.e >= 0 THEN BOne ELSE BShl(BOne, -x.e)

\* The digits of format(x, '.<d>f') as a natural number, round(|x| * 10^d):
\* Python formats the exact binary value, correctly rounded, ties to even
FormatFB(x, d) ==
    IF x.m = << >> THEN << >>
    ELSE BRoundDiv(BMul(FNum(x), BPow10(d)), FDen(x))

\* The same as a (signed) integer, where it fits one
FormatF(x, d) ==
    IF x.neg THEN -BToInt(FormatFB(x, d)) ELSE BToInt(FormatFB(x, d))

\* The decimal exponent of n/d >= 1: the largest k with 10^k <= n/d, where
\* p = d * 10^(k+1)
RECURSIVE DecExpFrom(_, _, _)
DecExpFrom(n, p, k) ==
    IF k >= 0 /\ BLeq(p, n) THEN DecExpFrom(n, BMulSmall(p, 10), k + 1) ELSE k

\* format(x, '.<d>e') for x >= 1: the d+1 significant digits and the
\* decimal exponent (the program prints no smaller number this way)
FormatE(x, d) ==
    LET k      == DecExpFrom(FNum(x), BMulSmall(FDen(x), 10), 0)
        digits == IF k <= d
                  THEN BRoundDiv(BMul(FNum(x), BPow10(d - k)), FDen(x))
                  ELSE BRoundDiv(FNum(x), BMul(FDen(x), BPow10(k - d)))
    IN  IF digits = BPow10(d + 1)
        THEN [digits |-> BToInt(BPow10(d)), exp |-> k + 1]
        ELSE [digits |-> BToInt(digits), exp |-> k]

-----------------------------------------------------------------------------
(* The program's constants and tables.                                     *)

G == Lit(6674, -14)

M_SUN == Lit(1989, 27)

AU == Lit(1495978707, 2)

\* math.pi = 3.141592653589793
PI == LitB(Dec(3141592, 653589793), -15)

\* A decimal literal of the source text, before it is parsed: the number
\* (hi*10^9 + lo) * 10^exp10
Decimal(digits, exp10) == <<0, digits, exp10>>

DecimalB(hi, lo, exp10) == <<hi, lo, exp10>>

\* The float a decimal literal denotes
Float(d) == LitB(Dec(d[1], d[2]), d[3])

Body(name, orbit_radius, orbital_velocity, expected_period_days, inclination, radius, mass) ==
    [name |-> name, orbit_radius |-> orbit_radius,
     orbital_velocity |-> orbital_velocity,
     expected_period_days |-> expected_period_days,
     inclination |-> inclination, radius |-> radius, mass |-> mass]

\* The text of the PLANETS literal, in its insertion order (the order
\* .items() yields)
PLANETS_text == <<
    Body("Mercury", Decimal(5790905, 4), Decimal(47362, 0), 88,
         Decimal(7005, -3), Decimal(2439700, 0), Decimal(33011, 19)),
    Body("Venus", Decimal(108208, 6), Decimal(35020, 0), 225,
         Decimal(3395, -3), Decimal(6051800, 0), Decimal(48675, 20)),
    Body("Earth", Decimal(1495978707, 2), Decimal(29780, 0), 365,
         Decimal(0, 0), Decimal(6371000, 0), Decimal(5972, 21)),
    Body("Mars", Decimal(2279392, 5), Decimal(24077, 0), 687,
         Decimal(1850, -3), Decimal(3389500, 0), Decimal(64171, 19)),
    Body("Jupiter", Decimal(77857, 7), Decimal(13070, 0), 4333,
         Decimal(1303, -3), Decimal(69911000, 0), Decimal(18982, 23)),
    Body("Saturn", Decimal(143353, 7), Decimal(9680, 0), 10759,
         Decimal(2485, -3), Decimal(58232000, 0), Decimal(56834, 22)),
    Body("Uranus", Decimal(287246, 7), Decimal(6800, 0), 30687,
         Decimal(773, -3), Decimal(25362000, 0), Decimal(86810, 21)),
    Body("Neptune", Decimal(449506, 7), Decimal(5430, 0), 60190,
         Decimal(1770, -3), Decimal(24622000, 0), Decimal(102413, 21)) >>

\* The table a text of the PLANETS literal evaluates to: the float fields
\* parsed, the int field (expected_period_days) as it is
Table(text) ==
    [k \in DOMAIN text |->
        [name |-> text[k].name,
         orbit_radius |-> Float(text[k].orbit_radius),
         orbital_velocity |-> Float(text[k].orbital_velocity),
         expected_period_days |-> text[k].expected_period_days,
         inclination |-> Float(text[k].inclination),
         radius |-> Float(text[k].radius),
         mass |-> Float(text[k].mass)]]

PLANETS_literal == Table(PLANETS_text)

\* The text of the expected_au literal of verify_orbit_distances
expected_au_text ==
    [Mercury |-> Decimal(387, -3), Venus |-> Decimal(723, -3),
     Earth |-> Decimal(1000, -3), Mars |-> Decimal(1524, -3),
     Jupiter |-> Decimal(5204, -3), Saturn |-> Decimal(9583, -3),
     Uranus |-> Decimal(1919, -2), Neptune |-> Decimal(3007, -2)]

\* The dict a text of the expected_au literal evaluates to
AuTable(text) == [n \in DOMAIN text |-> Float(text[n])]

expected_au_literal == AuTable(expected_au_text)

\* The threshold 2.0 of the two checks
Threshold == Lit(20, -1)

-----------------------------------------------------------------------------
(* Hypothetical tables.  The claims speak of bodies whose error is at, just *)
(* under or over the threshold; the shipped table has none.  A variant of  *)
(* the table is the shipped table with the orbit, the reference velocity   *)
(* and the reference period of one body replaced.                          *)

Orbit(orbit_radius, orbital_velocity, expected_period_days) ==
    [orbit_radius |-> orbit_radius, orbital_velocity |-> orbital_velocity,
     expected_period_days |-> expected_period_days]

HypotheticalOrbits == {
    \* velocity 25500.0 against 25000.0: error exactly 2.0
    Orbit(DecimalB(20414588, 235294116, -5), Decimal(25000, 0), 582),
    \* one float further out: velocity error 1.9999999999999856
    Orbit(DecimalB(2041458, 823529412, -4), Decimal(25000, 0), 582),
    \* period 408.0 against 400: error exactly 2.0
    Orbit(DecimalB(16106568, 351685974, -5), Decimal(28708, 0), 400),
    \* one float further in: period error 1.9999999999999716
    Orbit(DecimalB(1610656, 835168597, -4), Decimal(28708, 0), 400),
    \* Earth's orbit with a wrong reference period (error 8.7)
    Orbit(Decimal(1495978707, 2), Decimal(29780, 0), 400),
    \* Earth's orbit with a wrong reference velocity (error 19.2)
    Orbit(Decimal(1495978707, 2), Decimal(25000, 0), 365),
    \* Earth's orbit with both wrong
    Orbit(Decimal(1495978707, 2), Decimal(25000, 0), 400) }

\* The places of the table a hypothetical orbit is put in: first and last
Slots == {1, Len(PLANETS_text)}

WithOrbit(text, k, o) ==
    [text EXCEPT ![k] = [@ EXCEPT !.orbit_radius = o.orbit_radius,
                                  !.orbital_velocity = o.orbital_velocity,
                                  !.expected_period_days = o.expected_period_days]]

TableTexts ==
    {PLANETS_text} \cup
    {WithOrbit(PLANETS_text, k, o) : k \in Slots, o \in HypotheticalOrbits}

Tables == {Table(text) : text \in TableTexts}

\* A reference table that disagrees with the orbits (Earth's entry) and has
\* no entry for Neptune (expected_au.get(name, 0) then yields 0)
expected_au_altered_text ==
    [n \in DOMAIN expected_au_text \ {"Neptune"} |->
        IF n = "Earth" THEN Decimal(2, 0) ELSE expected_au_text[n]]

ExpectedAuTables ==
    {AuTable(text) : text \in {expected_au_text, expected_au_altered_text}}

\* How many times main() is invoked in a row
MaxRuns == 2

-----------------------------------------------------------------------------
(* The two formulas and the expressions of the checks.                     *)

\* A slip: T_seconds / 3600, the period in hours
calculate_orbital_period_hours(semi_major_axis_m) ==
    FDiv(FMul(FMul(FromInt(2), PI),
              FSqrt(FDiv(FCube(semi_major_axis_m), FMul(G, M_SUN)))),
         FromInt(3600))

\* T_seconds = 2 * math.pi * math.sqrt(a**3 / (G * M_SUN)); T_seconds / (24 * 3600)
calculate_orbital_period(semi_major_axis_m) ==
    LET T_seconds == FMul(FMul(FromInt(2), PI),
                          FSqrt(FDiv(FCube(semi_major_axis_m), FMul(G, M_SUN))))
    IN  FDiv(T_seconds, FromInt(24 * 3600))

\* A slip: the escape velocity math.sqrt(2 * G * M_SUN / a)
calculate_escape_velocity(semi_major_axis_m) ==
    FSqrt(FDiv(FMul(FMul(FromInt(2), G), M_SUN), semi_major_axis_m))

\* A slip: math.sqrt(G * M_SUN) / a, the division outside the root
calculate_orbital_velocity_root_first(semi_major_axis_m) ==
    FDiv(FSqrt(FMul(G, M_SUN)), semi_major_axis_m)

\* math.sqrt(G * M_SUN / a)
calculate_orbital_velocity(semi_major_axis_m) ==
    FSqrt(FDiv(FMul(G, M_SUN), semi_major_axis_m))

\* abs(calculated - reference) / reference * 100
percent_error(calc, reference) ==
    FMul(FDiv(FAbs(FSub(calc, reference)), reference), FromInt(100))

\* A slip: "PASS" if error <= 2.0
status_of_inclusive(err) == IF FCmp(err, Threshold) <= 0 THEN "PASS" ELSE "FAIL"

\* status = "PASS" if error < 2.0 else "FAIL"
status_of(err) == IF FLt(err, Threshold) THEN "PASS" ELSE "FAIL"

\* A slip: all_passed = error < 2.0, which forgets an earlier failure
flag_after_last(flag, err) == FLt(err, Threshold)

\* if error >= 2.0: all_passed = False
flag_after(flag, err) == IF FGe(err, Threshold) THEN FALSE ELSE flag

\* A slip: return 0 if period_ok or velocity_ok else 1
exit_status_either(p_ok, v_ok) == IF p_ok \/ v_ok THEN 0 ELSE 1

\* return 0 if period_ok and velocity_ok else 1
exit_status(p_ok, v_ok) == IF p_ok /\ v_ok THEN 0 ELSE 1

\* expected_au.get(name, 0), as the digits of its '.3f' format
expected_au_get(table, name) ==
    IF name \in DOMAIN table THEN FormatF(table[name], 3) ELSE 0

-----------------------------------------------------------------------------
(* State.                                                                  *)
(*  PLANETS, expected_au : the two tables                                  *)
(*  pc, i                : where main() is, and the loop index of the      *)
(*                         report routine that is running                  *)
(*  all_passed, calculated, error, status : locals of the running check    *)
(*                         (FALSE, 0.0, 0.0, "" while unbound)             *)
(*  period_ok, velocity_ok : locals of main() (FALSE while unbound)        *)
(*  exit_code            : what main() returned (-1: has not returned)     *)
(*  output               : the lines printed by this invocation            *)
(*  evaluated            : history of the values (calculated, error,       *)
(*                         status) each row of this invocation computed    *)
(*  runs, first          : the number of this invocation of main(), and    *)
(*                         what the first one produced                     *)
(* In the actions a local of the source is bound by \E over a one-element  *)
(* set rather than by LET, so that TLC computes its value once.            *)

VARIABLES PLANETS, expected_au, pc, i, all_passed, calculated, error, status,
          period_ok, velocity_ok, exit_code, output, evaluated, runs, first

vars == <<PLANETS, expected_au, pc, i, all_passed, calculated, error, status,
          period_ok, velocity_ok, exit_code, output, evaluated, runs, first>>

tables == <<PLANETS, expected_au>>

check_locals == <<all_passed, calculated, error, status>>

main_locals == <<period_ok, velocity_ok, exit_code>>

history == <<runs, first>>

Header(section) == [section |-> section, kind |-> "header"]

NoResult ==
    [output |-> << >>, evaluated |-> << >>, period_ok |-> FALSE,
     velocity_ok |-> FALSE, exit_code |-> -1]

Result ==
    [output |-> output, evaluated |-> evaluated, period_ok |-> period_ok,
     velocity_ok |-> velocity_ok, exit_code |-> exit_code]

Init ==
    /\ PLANETS \in Tables
    /\ expected_au \in ExpectedAuTables
    /\ pc = "main"
    /\ i = 0
    /\ all_passed = FALSE
    /\ calculated = FZero
    /\ error = FZero
    /\ status = ""
    /\ period_ok = FALSE
    /\ velocity_ok = FALSE
    /\ exit_code = -1
    /\ output = << >>
    /\ evaluated = << >>
    /\ runs = 1
    /\ first = NoResult

\* main(): the banner and the three constants
PrintConstants ==
    /\ pc = "main"
    /\ output' = Append(output,
          [section |-> "constants", kind |-> "header",
           G |-> G, M_SUN |-> FormatE(M_SUN, 3), AU |-> FormatFB(AU, 0)])
    /\ pc' = "verify_orbital_periods"
    /\ UNCHANGED <<tables, i, check_locals, main_locals, evaluated, history>>

\* verify_orbital_periods(): the heading, all_passed = True
PeriodsBegin ==
    /\ pc = "verify_orbital_periods"
    /\ output' = Append(output, Header("periods"))
    /\ all_passed' = TRUE
    /\ i' = 1
    /\ pc' = "periods_loop"
    /\ UNCHANGED <<tables, calculated, error, status, main_locals, evaluated, history>>

\* A slip: a period off the threshold raised as an error (the run stops in
\* the loop) instead of reported as a FAIL row
PeriodsRowRaising ==
    /\ pc = "periods_loop"
    /\ i <= Len(PLANETS)
    /\ \E data \in {PLANETS[i]} :
       \E calc \in {calculate_orbital_period(data.orbit_radius)} :
       \E expected \in {data.expected_period_days} :
       \E err \in {percent_error(calc, FromInt(expected))} :
       \E stat \in {status_of(err)} :
           /\ calculated' = calc
           /\ error' = err
           /\ status' = stat
           /\ IF stat = "FAIL"
              THEN /\ pc' = "raised"
                   /\ UNCHANGED <<all_passed, output, evaluated, i>>
              ELSE /\ pc' = pc
                   /\ i' = i + 1
                   /\ all_passed' = flag_after(all_passed, err)
                   /\ output' = Append(output,
                         [section |-> "periods", kind |-> "row", name |-> data.name,
                          calculated |-> FormatF(calc, 1), expected |-> expected,
                          error |-> FormatF(err, 2), status |-> stat])
                   /\ evaluated' = Append(evaluated,
                         [section |-> "periods", name |-> data.name,
                          calculated |-> calc, error |-> err, status |-> stat])
    /\ UNCHANGED <<tables, main_locals, history>>

\* one pass of  for name, data in PLANETS.items()
PeriodsRow ==
    /\ pc = "periods_loop"
    /\ i <= Len(PLANETS)
    /\ \E data \in {PLANETS[i]} :
       \E calc \in {calculate_orbital_period(data.orbit_radius)} :
       \E expected \in {data.expected_period_days} :
       \E err \in {percent_error(calc, FromInt(expected))} :
       \E stat \in {status_of(err)} :
           /\ calculated' = calc
           /\ error' = err
           /\ status' = stat
           /\ all_passed' = flag_after(all_passed, err)
           /\ output' = Append(output,
                 [section |-> "periods", kind |-> "row", name |-> data.name,
                  calculated |-> FormatF(calc, 1), expected |-> expected,
                  error |-> FormatF(err, 2), status |-> stat])
           /\ evaluated' = Append(evaluated,
                 [section |-> "periods", name |-> data.name, calculated |-> calc,
                  error |-> err, status |-> stat])
    /\ i' = i + 1
    /\ UNCHANGED <<tables, pc, main_locals, history>>

\* A slip: main() goes straight to the verdict when the period check failed
PeriodsReturnShortCircuit ==
    /\ pc = "periods_loop"
    /\ i > Len(PLANETS)
    /\ period_ok' = all_passed
    /\ pc' = IF all_passed THEN "verify_orbital_velocities" ELSE "result"
    /\ i' = 0
    /\ all_passed' = FALSE
    /\ calculated' = FZero
    /\ error' = FZero
    /\ status' = ""
    /\ UNCHANGED <<tables, velocity_ok, exit_code, output, evaluated, history>>

\* return all_passed, bound to period_ok in main()
PeriodsReturn ==
    /\ pc = "periods_loop"
    /\ i > Len(PLANETS)
    /\ period_ok' = all_passed
    /\ pc' = "verify_orbital_velocities"
    /\ i' = 0
    /\ all_passed' = FALSE
    /\ calculated' = FZero
    /\ error' = FZero
    /\ status' = ""
    /\ UNCHANGED <<tables, velocity_ok, exit_code, output, evaluated, history>>

\* verify_orbital_velocities(): the heading, all_passed = True
VelocitiesBegin ==
    /\ pc = "verify_orbital_velocities"
    /\ output' = Append(output, Header("velocities"))
    /\ all_passed' = TRUE
    /\ i' = 1
    /\ pc' = "velocities_loop"
    /\ UNCHANGED <<tables, calculated, error, status, main_locals, evaluated, history>>

\* A slip: the calculated velocity written back into the table
\* (data["orbital_velocity"] = calculated)
VelocitiesRowStoring ==
    /\ pc = "velocities_loop"
    /\ i <= Len(PLANETS)
    /\ \E data \in {PLANETS[i]} :
       \E calc \in {calculate_orbital_velocity(data.orbit_radius)} :
       \E config_value \in {data.orbital_velocity} :
       \E err \in {percent_error(calc, config_value)} :
       \E stat \in {status_of(err)} :
           /\ calculated' = calc
           /\ error' = err
           /\ status' = stat
           /\ all_passed' = flag_after(all_passed, err)
           /\ output' = Append(output,
                 [section |-> "velocities", kind |-> "row", name |-> data.name,
                  calculated |-> FormatF(calc, 0),
                  config |-> FormatF(config_value, 0),
                  error |-> FormatF(err, 2), status |-> stat])
           /\ evaluated' = Append(evaluated,
                 [section |-> "velocities", name |-> data.name, calculated |-> calc,
                  error |-> err, status |-> stat])
           /\ PLANETS' = [PLANETS EXCEPT ![i].orbital_velocity = calc]
    /\ i' = i + 1
    /\ UNCHANGED <<expected_au, pc, main_locals, history>>

\* one pass of  for name, data in PLANETS.items()
VelocitiesRow ==
    /\ pc = "velocities_loop"
    /\ i <= Len(PLANETS)
    /\ \E data \in {PLANETS[i]} :
       \E calc \in {calculate_orbital_velocity(data.orbit_radius)} :
       \E config_value \in {data.orbital_velocity} :
       \E err \in {percent_error(calc, config_value)} :
       \E stat \in {status_of(err)} :
           /\ calculated' = calc
           /\ error' = err
           /\ status' = stat
           /\ all_passed' = flag_after(all_passed, err)
           /\ output' = Append(output,
                 [section |-> "velocities", kind |-> "row", name |-> data.name,
                  calculated |-> FormatF(calc, 0),
                  config |-> FormatF(config_value, 0),
                  error |-> FormatF(err, 2), status |-> stat])
           /\ evaluated' = Append(evaluated,
                 [section |-> "velocities", name |-> data.name, calculated |-> calc,
                  error |-> err, status |-> stat])
    /\ i' = i + 1
    /\ UNCHANGED <<tables, pc, main_locals, history>>

\* return all_passed, bound to velocity_ok in main()
VelocitiesReturn ==
    /\ pc = "velocities_loop"
    /\ i > Len(PLANETS)
    /\ velocity_ok' = all_passed
    /\ pc' = "verify_orbit_distances"
    /\ i' = 0
    /\ all_passed' = FALSE
    /\ calculated' = FZero
    /\ error' = FZero
    /\ status' = ""
    /\ UNCHANGED <<tables, period_ok, exit_code, output, evaluated, history>>

\* verify_orbit_distances(): the headings
DistancesBegin ==
    /\ pc = "verify_orbit_distances"
    /\ output' = Append(output, Header("distances"))
    /\ i' = 1
    /\ pc' = "distances_loop"
    /\ UNCHANGED <<tables, check_locals, main_locals, evaluated, history>>

\* A slip: the displayed reference compared with the computed distance, a
\* disagreement counted as a failed check
DistancesRowChecked ==
    /\ pc = "distances_loop"
    /\ i <= Len(PLANETS)
    /\ \E data \in {PLANETS[i]} :
       \E au \in {FDiv(data.orbit_radius, AU)} :
       \E expected \in {expected_au_get(expected_au, data.name)} :
           /\ output' = Append(output,
                 [section |-> "distances", kind |-> "row", name |-> data.name,
                  distance |-> FormatE(data.orbit_radius, 2),
                  au |-> FormatF(au, 3), expected |-> expected])
           /\ velocity_ok' = (velocity_ok /\ FormatF(au, 3) = expected)
    /\ i' = i + 1
    /\ UNCHANGED <<tables, pc, check_locals, period_ok, exit_code, evaluated, history>>

\* one pass of  for name, data in PLANETS.items()
DistancesRow ==
    /\ pc = "distances_loop"
    /\ i <= Len(PLANETS)
    /\ \E data \in {PLANETS[i]} :
       \E au \in {FDiv(data.orbit_radius, AU)} :
       \E expected \in {expected_au_get(expected_au, data.name)} :
           output' = Append(output,
              [section |-> "distances", kind |-> "row", name |-> data.name,
               distance |-> FormatE(data.orbit_radius, 2),
               au |-> FormatF(au, 3), expected |-> expected])
    /\ i' = i + 1
    /\ UNCHANGED <<tables, pc, check_locals, main_locals, evaluated, history>>

\* the end of verify_orbit_distances(): nothing is returned
DistancesReturn ==
    /\ pc = "distances_loop"
    /\ i > Len(PLANETS)
    /\ pc' = "print_summary"
    /\ i' = 0
    /\ UNCHANGED <<tables, check_locals, main_locals, output, evaluated, history>>

\* print_summary(): the headings
SummaryBegin ==
    /\ pc = "print_summary"
    /\ output' = Append(output, Header("summary"))
    /\ i' = 1
    /\ pc' = "summary_loop"
    /\ UNCHANGED <<tables, check_locals, main_locals, evaluated, history>>

\* one pass of  for name, data in PLANETS.items()
SummaryRow ==
    /\ pc = "summary_loop"
    /\ i <= Len(PLANETS)
    /\ \E data \in {PLANETS[i]} :
       \E radius_km \in {FDiv(data.radius, FromInt(1000))} :
       \E orbit_au \in {FDiv(data.orbit_radius, AU)} :
           output' = Append(output,
              [section |-> "summary", kind |-> "row", name |-> data.name,
               radius_km |-> FormatF(radius_km, 0),
               mass |-> FormatE(data.mass, 2),
               orbit_au |-> FormatF(orbit_au, 3),
               inclination |-> FormatF(data.inclination, 3)])
    /\ i' = i + 1
    /\ UNCHANGED <<tables, pc, check_locals, main_locals, evaluated, history>>

\* the end of print_summary(): nothing is returned
SummaryReturn ==
    /\ pc = "summary_loop"
    /\ i > Len(PLANETS)
    /\ pc' = "result"
    /\ i' = 0
    /\ UNCHANGED <<tables, check_locals, main_locals, output, evaluated, history>>

\* main(): the result banner, the verdict and the return value
VerificationResult ==
    /\ pc = "result"
    /\ output' = output \o
          << Header("result"),
             [section |-> "result", kind |-> "verdict",
              ok |-> (exit_status(period_ok, velocity_ok) = 0)] >>
    /\ exit_code' = exit_status(period_ok, velocity_ok)
    /\ pc' = "done"
    /\ UNCHANGED <<tables, i, check_locals, period_ok, velocity_ok, evaluated, history>>

\* main() is invoked again in the same process: its locals and its output
\* start afresh, the module's tables are the same objects
Reinvoke ==
    /\ pc = "done"
    /\ runs < MaxRuns
    /\ first' = IF runs = 1 THEN Result ELSE first
    /\ runs' = runs + 1
    /\ pc' = "main"
    /\ period_ok' = FALSE
    /\ velocity_ok' = FALSE
    /\ exit_code' = -1
    /\ output' = << >>
    /\ evaluated' = << >>
    /\ UNCHANGED <<tables, i, check_locals>>

Next ==
    \/ PrintConstants
    \/ PeriodsBegin
    \/ PeriodsRow
    \/ PeriodsReturn
    \/ VelocitiesBegin
    \/ VelocitiesRow
    \/ VelocitiesReturn
    \/ DistancesBegin
    \/ DistancesRow
    \/ DistancesReturn
    \/ SummaryBegin
    \/ SummaryRow
    \/ SummaryReturn
    \/ VerificationResult
    \/ Reinvoke

Spec == Init /\ [][Next]_vars

\* main() is straight-line code in one thread: a step of it that can be
\* taken is taken (nothing makes the process invoke main() again, so Reinvoke
\* is not among them).  For the steps that compute, WF_vars(A) is written
\* out as []<>~ENABLED <<A>>_vars \/ []<><<A>>_vars with ENABLED <<A>>_vars
\* spelled as the guard of A: each of them changes i or pc, and its
\* arithmetic is defined on every table.
FairSpec ==
    /\ Spec
    /\ []<>(pc # "main") \/ []<><<PrintConstants>>_vars
    /\ WF_vars(PeriodsBegin)
    /\ []<>~(pc = "periods_loop" /\ i <= Len(PLANETS)) \/ []<><<PeriodsRow>>_vars
    /\ WF_vars(PeriodsReturn)
    /\ WF_vars(VelocitiesBegin)
    /\ []<>~(pc = "velocities_loop" /\ i <= Len(PLANETS)) \/ []<><<VelocitiesRow>>_vars
    /\ WF_vars(VelocitiesReturn)
    /\ WF_vars(DistancesBegin)
    /\ []<>~(pc = "distances_loop" /\ i <= Len(PLANETS)) \/ []<><<DistancesRow>>_vars
    /\ WF_vars(DistancesReturn)
    /\ WF_vars(SummaryBegin)
    /\ []<>~(pc = "summary_loop" /\ i <= Len(PLANETS)) \/ []<><<SummaryRow>>_vars
    /\ WF_vars(SummaryReturn)
    /\ WF_vars(VerificationResult)

-----------------------------------------------------------------------------
(* What the properties below read off a state.                             *)

\* The places of main(), in program order, and the place a pc value has
Steps ==
    << "main", "verify_orbital_periods", "periods_loop",
       "verify_orbital_velocities", "velocities_loop",
       "verify_orbit_distances", "distances_loop",
       "print_summary", "summary_loop", "result", "done" >>

At(p) == IF \E k \in 1..Len(Steps) : Steps[k] = p
         THEN CHOOSE k \in 1..Len(Steps) : Steps[k] = p
         ELSE 0

\* The headings main() is to print, in order
StepOrder ==
    << "constants", "periods", "velocities", "distances", "summary", "result" >>

\* How many headings have been printed when main() is at each place
HeadingsAt == << 0, 1, 2, 2, 3, 3, 4, 4, 5, 5, 6 >>

IsHeader(line) == line.kind = "header"

\* The headings printed so far
Headers ==
    LET h == SelectSeq(output, IsHeader)
    IN  [k \in 1..Len(h) |-> h[k].section]

\* The rows a report has printed so far
RowsOf(section) ==
    LET IsRow(line) == line.kind = "row" /\ line.section = section
    IN  SelectSeq(output, IsRow)

IsPrefix(a, b) == Len(a) <= Len(b) /\ a = SubSeq(b, 1, Len(a))

\* The names of the first n bodies of the table
NamesUpTo(n) == [k \in 1..n |-> PLANETS[k].name]

RowNames(rows) == [k \in 1..Len(rows) |-> rows[k].name]

AllPass(rows) == \A k \in 1..Len(rows) : rows[k].status = "PASS"

\* The flag of a check: all_passed while its loop runs, main()'s local after
CheckResult(section) ==
    IF section = "periods"
    THEN (IF pc = "periods_loop" THEN all_passed ELSE period_ok)
    ELSE (IF pc = "velocities_loop" THEN all_passed ELSE velocity_ok)

-----------------------------------------------------------------------------
(* Properties.                                                             *)

\* C1: when main() has returned, the exit code is 0 exactly when every period
\* error and every velocity error of the table's bodies is below 2.0, and it
\* is 1 as soon as one of them is 2.0 or more; both checks ran over the whole
\* table.
ExitCodeIffBothChecksPass ==
    pc = "done" =>
        \A thr \in {Threshold} :
            /\ Len(evaluated) = 2 * Len(PLANETS)
            /\ exit_code \in {0, 1}
            /\ (exit_code = 0) <=>
                   \A k \in 1..Len(evaluated) : FLt(evaluated[k].error, thr)
            /\ (\E k \in 1..Len(evaluated) : FGe(evaluated[k].error, thr))
                   => exit_code = 1

\* main() has returned 1 after a passed period check and a failed velocity check
ExitOneAfterOneFailedCheck ==
    pc = "done" /\ exit_code = 1 /\ period_ok /\ ~velocity_ok

\* C2: in both checks a body is PASS exactly when its percent error is
\* strictly below 2.0; a body whose error is exactly 2.0 is FAIL and the
\* check's flag is false from then on.
StrictThreshold ==
    \A thr \in {Threshold} :
        \A k \in 1..Len(evaluated) :
            /\ (evaluated[k].status = "PASS") <=> (FCmp(evaluated[k].error, thr) < 0)
            /\ evaluated[k].error = thr =>
                   /\ evaluated[k].status = "FAIL"
                   /\ ~CheckResult(evaluated[k].section)

\* a run has ended in which a body's error was exactly 2.0 and was reported FAIL
ErrorExactlyAtThreshold ==
    /\ pc = "done"
    /\ exit_code = 1
    /\ \E k \in 1..Len(evaluated) :
           evaluated[k].error = Threshold /\ evaluated[k].status = "FAIL"

\* C3: on the shipped table verify_orbital_periods returns True: each of the
\* 8 bodies, in table order, has a period error below 2.0 and is PASS.
ShippedPeriodsWithinTwoPercent ==
    pc = "verify_orbital_velocities" /\ PLANETS = PLANETS_literal =>
        /\ period_ok
        /\ Len(evaluated) = Len(PLANETS_text)
        /\ \A k \in 1..Len(evaluated) :
               /\ evaluated[k].section = "periods"
               /\ evaluated[k].name = PLANETS_text[k].name
               /\ FLt(evaluated[k].error, Threshold)
               /\ evaluated[k].status = "PASS"

\* verify_orbital_periods has returned on the shipped table
PeriodsCheckedOnShippedTable ==
    /\ pc = "verify_orbital_velocities"
    /\ PLANETS = PLANETS_literal
    /\ Len(evaluated) = Len(PLANETS_text)

\* C4: on the shipped table verify_orbital_velocities returns True: each of
\* the 8 bodies, in table order, has a velocity error below 2.0 and is PASS.
ShippedVelocitiesWithinTwoPercent ==
    pc = "verify_orbit_distances" /\ PLANETS = PLANETS_literal =>
        /\ velocity_ok
        /\ Len(evaluated) = 2 * Len(PLANETS_text)
        /\ \A k \in 1..Len(PLANETS_text) :
               \A e \in {evaluated[Len(PLANETS_text) + k]} :
                   /\ e.section = "velocities"
                   /\ e.name = PLANETS_text[k].name
                   /\ FLt(e.error, Threshold)
                   /\ e.status = "PASS"

\* verify_orbital_velocities has returned on the shipped table
VelocitiesCheckedOnShippedTable ==
    /\ pc = "verify_orbit_distances"
    /\ PLANETS = PLANETS_literal
    /\ Len(evaluated) = 2 * Len(PLANETS_text)

\* C5: each check prints one row per body, in table order, for the bodies it
\* has passed over and evaluates each once; its flag is true exactly when
\* every row printed so far is PASS, in the loop and when it has returned
\* (so a FAIL row is never undone by a later PASS row, and the loop goes on
\* after it).
EveryBodyOnceInOrder ==
    /\ Len(evaluated) = Len(RowsOf("periods")) + Len(RowsOf("velocities"))
    /\ At(pc) < 3 => RowsOf("periods") = << >>
    /\ pc = "periods_loop" =>
           /\ RowNames(RowsOf("periods")) = NamesUpTo(i - 1)
           /\ all_passed = AllPass(RowsOf("periods"))
    /\ At(pc) > 3 =>
           /\ RowNames(RowsOf("periods")) = NamesUpTo(Len(PLANETS))
           /\ period_ok = AllPass(RowsOf("periods"))
    /\ At(pc) < 5 => RowsOf("velocities") = << >>
    /\ pc = "velocities_loop" =>
           /\ RowNames(RowsOf("velocities")) = NamesUpTo(i - 1)
           /\ all_passed = AllPass(RowsOf("velocities"))
    /\ At(pc) > 5 =>
           /\ RowNames(RowsOf("velocities")) = NamesUpTo(Len(PLANETS))
           /\ velocity_ok = AllPass(RowsOf("velocities"))

\* the period loop has printed a FAIL row and then a PASS row
PassRowAfterFailRow ==
    /\ pc = "periods_loop"
    /\ i = 3
    /\ ~all_passed
    /\ RowsOf("periods")[1].status = "FAIL"
    /\ RowsOf("periods")[2].status = "PASS"

\* C6: the headings main() has printed are always the first ones of
\* constants, periods, velocities, distances, summary, result, as many as its
\* place in the code says; when it has returned all six were printed once and
\* each of the four reports printed a row for every body, whatever the checks
\* returned.
FixedStepOrder ==
    /\ IsPrefix(Headers, StepOrder)
    /\ At(pc) > 0
    /\ Len(Headers) = HeadingsAt[At(pc)]
    /\ pc = "done" =>
           /\ Headers = StepOrder
           /\ \A section \in {"periods", "velocities", "distances", "summary"} :
                  Len(RowsOf(section)) = Len(PLANETS)

\* main() has returned after a failed period check and a passed velocity check
AllStepsAfterFailedPeriodCheck ==
    pc = "done" /\ ~period_ok /\ velocity_ok /\ Len(RowsOf("summary")) = Len(PLANETS)

\* C7: no step of verify_orbit_distances or print_summary changes period_ok,
\* velocity_ok, the exit code or what the checks evaluated, and the verdict
\* is taken from period_ok and velocity_ok as the checks returned them.
ReportsLeaveResultsAlone ==
    [][ /\ pc \in {"verify_orbit_distances", "distances_loop",
                   "print_summary", "summary_loop"}
            => UNCHANGED <<period_ok, velocity_ok, exit_code, evaluated>>
        /\ pc = "result"
            => /\ UNCHANGED <<period_ok, velocity_ok, evaluated>>
               /\ (exit_code' = 0) <=> (period_ok /\ velocity_ok) ]_vars

\* the distance report has ended with both checks passed although a row's
\* expected AU disagrees with its computed AU
DisagreeingReferenceDisplayed ==
    /\ pc = "print_summary"
    /\ period_ok
    /\ velocity_ok
    /\ \E k \in 1..Len(RowsOf("distances")) :
           RowsOf("distances")[k].au # RowsOf("distances")[k].expected

\* C8: every invocation of main() comes to its end with exit code 0 or 1.
RunTerminates ==
    (pc = "main") ~> (pc = "done" /\ exit_code \in {0, 1})

\* main() has returned after a FAIL row was printed
ReturnedAfterFailRow ==
    /\ pc = "done"
    /\ exit_code \in {0, 1}
    /\ \E k \in 1..Len(output) :
           /\ output[k].kind = "row"
           /\ output[k].section \in {"periods", "velocities"}
           /\ output[k].status = "FAIL"

\* C9: no step changes the PLANETS table or the expected_au table, and a
\* later invocation of main() ends with the output, the per-body calculated
\* values, errors and statuses, the two booleans and the exit code of the
\* first invocation.
RepeatedRunsAgree ==
    [][ /\ PLANETS' = PLANETS
        /\ expected_au' = expected_au
        /\ (pc' = "done" /\ runs' > 1) => Result' = first' ]_vars

\* a second invocation has ended, on a table with a failing body
SecondRunEnded ==
    pc = "done" /\ runs > 1 /\ first.exit_code = 1 /\ exit_code = 1

\* C10 as amended: a body on Earth's orbit (orbit_radius 149597870700.0, the
\* value of AU) has its velocity printed as 29788 by the velocity report, and
\* Earth's row shows it against the config value 29780.
EarthVelocityPrints29788 ==
    At(pc) > 5 =>
        \A k \in 1..Len(PLANETS) :
            PLANETS[k].orbit_radius = AU =>
                /\ RowsOf("velocities")[k].calculated = 29788
                /\ PLANETS[k].name = "Earth"
                       => RowsOf("velocities")[k].config = 29780

\* the velocity report has printed Earth's row
EarthVelocityRowPrinted ==
    /\ pc = "verify_orbit_distances"
    /\ \E k \in 1..Len(PLANETS) :
           /\ PLANETS[k].name = "Earth"
           /\ PLANETS[k].orbit_radius = AU
           /\ RowsOf("velocities")[k].name = "Earth"
           /\ RowsOf("velocities")[k].config = 29780

\* C10 as stated: the velocity printed for a body on Earth's orbit is 29765.
EarthVelocityPrints29765 ==
    At(pc) > 5 =>
        \A k \in 1..Len(PLANETS) :
            PLANETS[k].orbit_radius = AU =>
                /\ RowsOf("velocities")[k].calculated = 29765
                /\ PLANETS[k].name = "Earth"
                       => RowsOf("velocities")[k].config = 29780

=============================================================================
